---------------------------- MODULE Spec2Model ----------------------------
(***************************************************************************)
(* A model of flibrary/ada (src/main.rs): the `brew` command that enriches *)
(* a Parquet corpus with embeddings, the chunked scheduler get_embeddings, *)
(* the provider client get_embedding with its token guard, and `search`.   *)
(*                                                                         *)
(* Encoding of Rust/Polars values:                                         *)
(*   Option<T> / a nullable cell : <<>> for None/null, <<x>> for Some(x)   *)
(*   Vec<f32>                    : a tuple of integers, e.g. <<1, 0>>      *)
(*   a string built by `+`       : the tuple of its parts                  *)
(*   a file                      : <<>> when the path does not exist,      *)
(*                                 <<rows>> when it holds the frame rows   *)
(***************************************************************************)
EXTENDS Integers, Sequences, FiniteSets

(***************************************************************************)
(* Bounds of the model.                                                    *)
(***************************************************************************)
\* the largest corpus (number of rows of the input frame)
MaxRecords == 3

\* main.rs:7 sets CHUNK_SIZE to 256; the model scales it down so that a
\* corpus of MaxRecords rows is cut into more than one chunk.
CHUNK_SIZE == 2

\* main.rs:82 prints df.head(Some(20)); the model scales the 20 down so that
\* a corpus of MaxRecords rows is truncated.
HEAD_ROWS == 2

(***************************************************************************)
(* Program constants.                                                      *)
(***************************************************************************)
MAX_TOKEN == 8100

TAGS ==
  {"<quantum-mechanics>", "<statistical-mechanics>", "<thermodynamics>",
   "<electromagnetism>", "<electrodynamics>"}

\* the invocations of the binary that may run against the same files
Procs == {1, 2}

Paths == {"a.parquet", "b.parquet"}

None == <<>>

Some(x) == <<x>>

(***************************************************************************)
(* The values the bounded runs draw from.                                  *)
(***************************************************************************)
\* the embeddings the provider returns in the bounded runs; the corpus
\* starts with <<1, 0>> where an embedding is present
Vectors == {<<0, 1>>}

QueryTexts == {<<"query">>, <<"edgequery">>, <<"longquery">>}

\* what the provider can do with one request (main.rs:108-117): the request
\* fails (network, authentication, a response that does not deserialize), or
\* it succeeds with a list `data` of embeddings, which may be empty.
Responses ==
  {[ok |-> FALSE, data |-> <<>>]}
    \cup {[ok |-> TRUE, data |-> <<>>]}
    \cup {[ok |-> TRUE, data |-> <<v>>] : v \in Vectors}

(***************************************************************************)
(* Tokenizer: encode_ordinary(text).len() (main.rs:96).  The tokenizer is  *)
(* an external library; a text is the tuple of its parts and every part    *)
(* has a fixed number of tokens.  The body "edge" makes the combined text  *)
(* exactly MAX_TOKEN tokens long and "long" one token more; "edgequery"    *)
(* and "longquery" are the same two lengths for a query.                   *)
(***************************************************************************)
PartTokens(s) ==
  CASE s = "Title: "   -> 2
    [] s = " Body: "   -> 2
    [] s = "short"     -> 5
    [] s = "edge"      -> 8095
    [] s = "long"      -> 8096
    [] s = "query"     -> 3
    [] s = "edgequery" -> 8100
    [] s = "longquery" -> 8101
    [] OTHER           -> 1

RECURSIVE SumTokens(_)
SumTokens(text) ==
  IF text = <<>> THEN 0 ELSE PartTokens(Head(text)) + SumTokens(Tail(text))

token_len(text) == SumTokens(text)

(***************************************************************************)
(* Column expressions of brew (main.rs:160-163, 178, 191).                 *)
(***************************************************************************)
\* col("tags").str().contains(lit(TAGS), false): a regex search for any of
\* the alternatives; a null cell gives null.
contains(tags) ==
  IF tags = None
    THEN None
    ELSE Some(\E i \in DOMAIN tags[1] : tags[1][i] \in TAGS)

is_null(cell) == cell = None

\* a faulty variant of `and`: a null operand counts as false
and_null_false(a, b) ==
  IF a = Some(TRUE) /\ b = Some(TRUE) THEN Some(TRUE) ELSE Some(FALSE)

\* Polars' `and` on nullable booleans (Kleene logic)
and(a, b) ==
  IF a = Some(FALSE) \/ b = Some(FALSE) THEN Some(FALSE)
  ELSE IF a = None \/ b = None THEN None
  ELSE Some(TRUE)

\* faulty variants of filtering: the mask without its is_null term, and the mask
\* without its tag term
filtering_tags(row) == contains(row.tags)

filtering_nulls(row) == Some(is_null(row.embeddings))

filtering(row) == and(contains(row.tags), Some(is_null(row.embeddings)))

combined(row) == <<"Title: ", row.title, " Body: ", row.body>>

\* faulty variants of coalesce: the update column replaces the stored one, and the
\* update column is never taken
coalesce_overwrite(embeddings, masked_updates) == masked_updates

coalesce_keep(embeddings, masked_updates) == embeddings

coalesce(embeddings, masked_updates) ==
  IF embeddings # None THEN embeddings ELSE masked_updates

\* a faulty variant of FilterHeight: the height of the frame without the filter
FilterHeight_all(rows) == Len(rows)

\* LazyFrame::filter keeps the rows whose predicate is true (null drops)
FilterHeight(rows) ==
  Cardinality({i \in DOMAIN rows : filtering(rows[i]) = Some(TRUE)})

(***************************************************************************)
(* State.                                                                  *)
(***************************************************************************)
VARIABLES
  store,          \* Paths -> the Parquet file at that path
  pc,             \* Procs -> where the invocation is
  cmd,            \* Procs -> the command line of the invocation
  df,             \* Procs -> the rows scanned by brew at main.rs:176
  pos,            \* Procs -> the next row the `zipped` iterator yields
  handles,        \* Procs -> the Vec of Option<JoinHandle> of the chunk
  results,        \* Procs -> the Vec<Option<Series>> of get_embeddings
  task,           \* Procs -> row -> the get_embedding future of that row
  embedCalls,     \* Procs -> row -> get_embedding calls made in the run
  providerCalls,  \* Procs -> row -> requests sent to the provider
  answers,        \* Procs -> the (text, embedding) answers of the run
  outcome,        \* Procs -> how the last command of the invocation ended
  printed,        \* Procs -> the rows search printed
  hist,           \* the last corpus brew wrote, and the answers of that run
  before,         \* Procs -> the files and hist when the command started
  overtaken       \* Procs -> a call ended while an earlier one was running

vars ==
  <<store, pc, cmd, df, pos, handles, results, task, embedCalls,
    providerCalls, answers, outcome, printed, hist, before, overtaken>>

Rows == 0 .. MaxRecords

NoTask == [st |-> "none", text |-> <<>>, out |-> None]

NoCmd == [name |-> "none", input |-> "a.parquet", output |-> "a.parquet",
          text |-> <<>>]

\* the rows a corpus may hold: ids are the row numbers
RowKinds ==
  {[tags |-> None, body |-> "short", embeddings |-> None],
   [tags |-> Some(<<"<game-design>">>), body |-> "short",
    embeddings |-> None],
   [tags |-> Some(<<"<game-design>">>), body |-> "short",
    embeddings |-> Some(<<1, 0>>)],
   [tags |-> Some(<<"<thermodynamics>">>), body |-> "edge",
    embeddings |-> Some(<<1, 0>>)],
   [tags |-> Some(<<"<game-design>", "<quantum-mechanics>">>),
    body |-> "edge", embeddings |-> None],
   [tags |-> Some(<<"<quantum-mechanics>">>), body |-> "long",
    embeddings |-> None]}

\* every question has a title of its own, of one token
Title(i) == <<"Q1", "Q2", "Q3", "Q4", "Q5", "Q6">>[i]

Row(i, k) ==
  [id |-> i, title |-> Title(i), body |-> k.body, tags |-> k.tags,
   embeddings |-> k.embeddings]

Corpora ==
  UNION {{[i \in 1 .. n |-> Row(i, ks[i])] : ks \in [1 .. n -> RowKinds]} :
           n \in 1 .. MaxRecords}

\* a.parquet holds a corpus, or is missing; b.parquet is not written yet
Init ==
  /\ \E file \in {None} \cup {Some(c) : c \in Corpora} :
       store = [q \in Paths |-> IF q = "a.parquet" THEN file ELSE None]
  /\ pc = [p \in Procs |-> "idle"]
  /\ cmd = [p \in Procs |-> NoCmd]
  /\ df = [p \in Procs |-> <<>>]
  /\ pos = [p \in Procs |-> 1]
  /\ handles = [p \in Procs |-> <<>>]
  /\ results = [p \in Procs |-> <<>>]
  /\ task = [p \in Procs |-> [i \in Rows |-> NoTask]]
  /\ embedCalls = [p \in Procs |-> [i \in Rows |-> 0]]
  /\ providerCalls = [p \in Procs |-> [i \in Rows |-> 0]]
  /\ answers = [p \in Procs |-> {}]
  /\ outcome = [p \in Procs |-> "none"]
  /\ printed = [p \in Procs |-> <<>>]
  /\ hist = [path |-> "a.parquet", rows |-> None, answers |-> {}]
  /\ before = [p \in Procs |-> [store |-> store, hist |-> hist]]
  /\ overtaken = [p \in Procs |-> FALSE]


(***************************************************************************)
(* Helpers of the actions.                                                 *)
(***************************************************************************)
\* a command starts in a fresh process: nothing is left of the last one
Start(p, c, next) ==
  /\ pc[p] = "idle"
  /\ pc' = [pc EXCEPT ![p] = next]
  /\ cmd' = [cmd EXCEPT ![p] = c]
  /\ df' = [df EXCEPT ![p] = <<>>]
  /\ pos' = [pos EXCEPT ![p] = 1]
  /\ handles' = [handles EXCEPT ![p] = <<>>]
  /\ results' = [results EXCEPT ![p] = <<>>]
  /\ providerCalls' = [providerCalls EXCEPT ![p] = [i \in Rows |-> 0]]
  /\ answers' = [answers EXCEPT ![p] = {}]
  /\ outcome' = [outcome EXCEPT ![p] = "running"]
  /\ printed' = [printed EXCEPT ![p] = <<>>]
  /\ before' = [before EXCEPT ![p] = [store |-> store, hist |-> hist]]
  /\ overtaken' = [overtaken EXCEPT ![p] = FALSE]

\* the command returns (Ok, Err) or the process panics
Finish(p, how) ==
  /\ pc' = [pc EXCEPT ![p] = "idle"]
  /\ outcome' = [outcome EXCEPT ![p] = how]

\* the futures of an invocation make progress only while its runtime lives
Running(p) == pc[p] \in {"spawn", "peek", "await", "s_embed"}

(***************************************************************************)
(* get_embedding (main.rs:88-119), one future per row; row 0 is the query  *)
(* text of search.                                                         *)
(***************************************************************************)
\* main.rs:138 / main.rs:47: the call of get_embedding(text)
spawn(p, i, text) ==
  /\ task' = [task EXCEPT ![p][i] = [st |-> "spawned", text |-> text,
                                     out |-> None]]
  /\ embedCalls' = [embedCalls EXCEPT ![p][i] = @ + 1]

\* a faulty variant of guard_passes: `>=` for `>`
guard_passes_ge(text) == ~(token_len(text) >= MAX_TOKEN)

\* main.rs:96-111: the token guard, then the request is sent
guard_passes(text) == ~(token_len(text) > MAX_TOKEN)

\* the call of row i ends while the call of an earlier row is still running
Overtakes(p, i) ==
  \E j \in 1 .. MaxRecords :
    j < i /\ task[p][j].st \in {"spawned", "inflight"}

get_embedding_guard(p, i) ==
  /\ Running(p)
  /\ task[p][i].st = "spawned"
  /\ IF guard_passes(task[p][i].text)
       THEN /\ task' = [task EXCEPT ![p][i].st = "inflight"]
            /\ providerCalls' = [providerCalls EXCEPT ![p][i] = @ + 1]
            /\ UNCHANGED overtaken
       ELSE /\ task' = [task EXCEPT ![p][i].st = "done", ![p][i].out = None]
            /\ overtaken' = [overtaken EXCEPT ![p] = @ \/ Overtakes(p, i)]
            /\ UNCHANGED providerCalls
  /\ UNCHANGED <<store, pc, cmd, df, pos, handles, results, embedCalls,
                 answers, outcome, printed, hist, before>>

\* main.rs:112-117: .map_err(..).ok()?  .data.pop()?  .embedding
embedding_of(resp) ==
  IF ~resp.ok THEN None
  ELSE IF resp.data = <<>> THEN None
  ELSE Some(resp.data[Len(resp.data)])

get_embedding_respond(p, i, resp) ==
  /\ Running(p)
  /\ task[p][i].st = "inflight"
  /\ task' = [task EXCEPT ![p][i].st = "done",
                          ![p][i].out = embedding_of(resp)]
  /\ answers' = [answers EXCEPT
                   ![p] = @ \cup {<<task[p][i].text, embedding_of(resp)>>}]
  /\ overtaken' = [overtaken EXCEPT ![p] = @ \/ Overtakes(p, i)]
  /\ UNCHANGED <<store, pc, cmd, df, pos, handles, results, embedCalls,
                 providerCalls, outcome, printed, hist, before>>

\* main.rs:109-112: the request is sent without a timeout; the provider
\* may never answer it, and the future then stays pending for ever
get_embedding_hang(p, i) ==
  /\ Running(p)
  /\ task[p][i].st = "inflight"
  /\ task' = [task EXCEPT ![p][i].st = "hung"]
  /\ UNCHANGED <<store, pc, cmd, df, pos, handles, results, embedCalls,
                 providerCalls, answers, outcome, printed, hist, before,
                 overtaken>>

(***************************************************************************)
(* get_embeddings (main.rs:121-156).                                       *)
(***************************************************************************)
\* faulty variants of chunk_full: the chunks are never cut, and the chunk is
\* cut one element late
chunk_full_never(n) == FALSE

chunk_full_late(n) == n = CHUNK_SIZE + 1

\* main.rs:134: zipped.chunks(CHUNK_SIZE) ends a chunk of n elements
chunk_full(n) == n = CHUNK_SIZE

\* main.rs:134-143: the closure of `xs.map(..)` for the next element of the
\* chunk.  `zipped` is lazy: the mask of a row is unwrapped (main.rs:131)
\* when the iterator yields that row.
get_embeddings_map(p) ==
  /\ pc[p] = "spawn"
  /\ pos[p] <= Len(df[p])
  /\ LET i == pos[p]
         mask == filtering(df[p][i])
         full == chunk_full(Len(handles[p]) + 1)
         next == IF i + 1 > Len(df[p]) THEN "await"
                 ELSE IF full THEN "peek" ELSE "spawn"
     IN IF mask = None
          THEN /\ Finish(p, "Panic")
               /\ UNCHANGED <<pos, handles, task, embedCalls>>
          ELSE /\ pos' = [pos EXCEPT ![p] = i + 1]
               /\ pc' = [pc EXCEPT ![p] = next]
               /\ UNCHANGED outcome
               /\ IF mask[1]
                    THEN /\ spawn(p, i, combined(df[p][i]))
                         /\ handles' =
                              [handles EXCEPT ![p] = Append(@, Some(i))]
                    ELSE /\ handles' = [handles EXCEPT ![p] = Append(@, None)]
                         /\ UNCHANGED <<task, embedCalls>>
  /\ UNCHANGED <<store, cmd, df, results, providerCalls, answers, printed,
                 hist, before, overtaken>>

\* itertools' chunks(): the chunk ends when the iterator has yielded the
\* first element of the next chunk, so that row's mask is unwrapped before
\* the handles of this chunk are awaited.
get_embeddings_peek(p) ==
  /\ pc[p] = "peek"
  /\ IF filtering(df[p][pos[p]]) = None
       THEN Finish(p, "Panic")
       ELSE /\ pc' = [pc EXCEPT ![p] = "await"]
            /\ UNCHANGED outcome
  /\ UNCHANGED <<store, cmd, df, pos, handles, results, task, embedCalls,
                 providerCalls, answers, printed, hist, before,
                 overtaken>>

\* a faulty variant of push: the result is inserted at the front
push_front(vec, x) == <<x>> \o vec

\* main.rs:145: results.push(..)
push(vec, x) == Append(vec, x)

\* a faulty variant of joined: the await gives up on a call that hangs
joined_or_timeout(t) == t.st \in {"done", "hung"}

\* main.rs:146: handle.await returns when the task has returned, and there
\* is no timeout
joined(t) == t.st = "done"

\* main.rs:144-150: the handles are awaited in the order of the chunk
get_embeddings_await(p) ==
  /\ pc[p] = "await"
  /\ handles[p] # <<>>
  /\ LET h == Head(handles[p])
         rest == Tail(handles[p])
     IN /\ h # None => joined(task[p][h[1]])
        /\ results' =
             [results EXCEPT
                ![p] = push(@, IF h = None THEN None ELSE task[p][h[1]].out)]
        /\ handles' = [handles EXCEPT ![p] = rest]
        /\ pc' = [pc EXCEPT
                    ![p] = IF rest # <<>> THEN "await"
                           ELSE IF pos[p] > Len(df[p]) THEN "merge"
                           ELSE "spawn"]
  /\ UNCHANGED <<store, cmd, df, pos, task, embedCalls, providerCalls,
                 answers, outcome, printed, hist, before,
                 overtaken>>

(***************************************************************************)
(* brew (main.rs:159-204).                                                 *)
(***************************************************************************)
brew_start(p, input, output) ==
  /\ Start(p, [name |-> "brew", input |-> input, output |-> output,
               text |-> <<>>], "check")
  /\ task' = [task EXCEPT ![p] = [i \in Rows |-> NoTask]]
  /\ embedCalls' = [embedCalls EXCEPT ![p] = [i \in Rows |-> 0]]
  /\ UNCHANGED <<store, hist>>

\* main.rs:166-174: the first scan; nothing to embed returns Ok(()) at once
brew_check(p) ==
  /\ pc[p] = "check"
  /\ LET file == store[cmd[p].input]
     IN IF file = None
          THEN Finish(p, "Err")
          ELSE IF FilterHeight(file[1]) = 0
            THEN Finish(p, "NoUpdate")
            ELSE /\ pc' = [pc EXCEPT ![p] = "scan"]
                 /\ UNCHANGED outcome
  /\ UNCHANGED <<store, cmd, df, pos, handles, results, task, embedCalls,
                 providerCalls, answers, printed, hist, before,
                 overtaken>>

\* main.rs:176-180: the second scan, with the combined and mask columns
brew_scan(p) ==
  /\ pc[p] = "scan"
  /\ LET file == store[cmd[p].input]
     IN IF file = None
          THEN /\ Finish(p, "Err")
               /\ UNCHANGED df
          ELSE /\ df' = [df EXCEPT ![p] = file[1]]
               /\ pc' = [pc EXCEPT ![p] = "spawn"]
               /\ UNCHANGED outcome
  /\ UNCHANGED <<store, cmd, pos, handles, results, task, embedCalls,
                 providerCalls, answers, printed, hist, before,
                 overtaken>>

\* main.rs:153-155, 182: a column of nulls only has no Float32 list type,
\* and the frame cannot be collected
converts(updates) == \E i \in DOMAIN updates : updates[i] # None

\* a faulty variant of merged: the select of main.rs:192 is left out, so the
\* scratch columns stay in the frame
merged_unselected(rows, updates) ==
  [i \in DOMAIN rows |->
     [id |-> rows[i].id, title |-> rows[i].title, body |-> rows[i].body,
      tags |-> rows[i].tags,
      embeddings |-> coalesce(rows[i].embeddings, updates[i]),
      combined |-> combined(rows[i]), mask |-> filtering(rows[i]),
      masked_updates |-> updates[i]]]

\* main.rs:191-192: coalesce, then select id, title, body, tags, embeddings
merged(rows, updates) ==
  [i \in DOMAIN rows |->
     [id |-> rows[i].id, title |-> rows[i].title, body |-> rows[i].body,
      tags |-> rows[i].tags,
      embeddings |-> coalesce(rows[i].embeddings, updates[i])]]

\* main.rs:181-199: the frame is collected and written to `output`
brew_collect(p) ==
  /\ pc[p] = "merge"
  /\ IF converts(results[p])
       THEN /\ store' = [store EXCEPT
                           ![cmd[p].output] = Some(merged(df[p], results[p]))]
            /\ hist' = [path |-> cmd[p].output,
                        rows |-> Some(merged(df[p], results[p])),
                        answers |-> answers[p]]
            /\ Finish(p, "Written")
       ELSE /\ Finish(p, "Err")
            /\ UNCHANGED <<store, hist>>
  /\ UNCHANGED <<cmd, df, pos, handles, results, task, embedCalls,
                 providerCalls, answers, printed, before, overtaken>>

(***************************************************************************)
(* search (main.rs:42-85).                                                 *)
(***************************************************************************)
\* main.rs:47: get_embedding(text) is called and awaited before the scan
search_start(p, input, text) ==
  /\ Start(p, [name |-> "search", input |-> input, output |-> input,
               text |-> text], "s_embed")
  /\ task' = [task EXCEPT
                ![p] = [i \in Rows |->
                          IF i = 0
                            THEN [st |-> "spawned", text |-> text,
                                  out |-> None]
                            ELSE NoTask]]
  /\ embedCalls' = [embedCalls EXCEPT
                      ![p] = [i \in Rows |-> IF i = 0 THEN 1 ELSE 0]]
  /\ UNCHANGED <<store, hist>>

RECURSIVE SumProducts(_, _)
SumProducts(a, b) ==
  IF a = <<>> THEN 0 ELSE Head(a) * Head(b) + SumProducts(Tail(a), Tail(b))

\* Series::dot (main.rs:62)
dot(a, b) == SumProducts(a, b)

\* main.rs:54-69: apply_nonnull_values_generic leaves a null cell null
score(embeddings, text_embedding) ==
  IF embeddings = None THEN None ELSE Some(dot(embeddings[1], text_embedding))

\* a faulty variant of Precedes: ascending
Precedes_asc(a, b) == a # None /\ (b = None \/ a[1] < b[1])

\* main.rs:71-78: descending, nulls last; a must not come after b
Precedes(a, b) == a # None /\ (b = None \/ a[1] > b[1])

Orders(n) ==
  {f \in [1 .. n -> 1 .. n] : \A i, j \in 1 .. n : i # j => f[i] # f[j]}

\* the orders sort() may leave the rows in: rows of equal score in any order
sort(scores) ==
  {f \in Orders(Len(scores)) :
     \A j, k \in 1 .. Len(scores) :
       j < k => ~Precedes(scores[f[k]], scores[f[j]])}

\* main.rs:82: DataFrame::head
head(rows, n) == SubSeq(rows, 1, IF Len(rows) < n THEN Len(rows) ELSE n)

\* main.rs:51-53, 79: the id as a URL, and the selected columns
ranked(rows, scores, order) ==
  [k \in 1 .. Len(rows) |->
     [id |-> <<"https://physics.stackexchange.com/questions/",
               rows[order[k]].id>>,
      title |-> rows[order[k]].title,
      score |-> scores[order[k]]]]

\* main.rs:49-84: the scan, the score column, the sort and the print, with
\* the query's embedding q
search_scan(p, q) ==
  LET file == store[cmd[p].input]
  IN IF file = None
       THEN /\ Finish(p, "Err")
            /\ UNCHANGED printed
       ELSE IF \E i \in DOMAIN file[1] :
                 /\ file[1][i].embeddings # None
                 /\ Len(file[1][i].embeddings[1]) # Len(q)
         THEN /\ Finish(p, "Panic")
              /\ UNCHANGED printed
         ELSE LET scores ==
                    [i \in DOMAIN file[1] |->
                       score(file[1][i].embeddings, q)]
              IN \E order \in sort(scores) :
                   /\ printed' =
                        [printed EXCEPT
                           ![p] = head(ranked(file[1], scores, order),
                                       HEAD_ROWS)]
                   /\ Finish(p, "Ranked")

\* a faulty variant of search_rank: unwrap_or_default() for unwrap(), so an
\* absent query embedding is ranked as the zero vector
search_rank_default(p) ==
  /\ pc[p] = "s_embed"
  /\ task[p][0].st = "done"
  /\ search_scan(p, IF task[p][0].out = None THEN <<0, 0>>
                    ELSE task[p][0].out[1])
  /\ UNCHANGED <<store, cmd, df, pos, handles, results, task, embedCalls,
                 providerCalls, answers, hist, before, overtaken>>

\* main.rs:47-84 once the query's future is done: unwrap() panics on None
search_rank(p) ==
  /\ pc[p] = "s_embed"
  /\ task[p][0].st = "done"
  /\ IF task[p][0].out = None
       THEN /\ Finish(p, "Panic")
            /\ UNCHANGED printed
       ELSE search_scan(p, task[p][0].out[1])
  /\ UNCHANGED <<store, cmd, df, pos, handles, results, task, embedCalls,
                 providerCalls, answers, hist, before, overtaken>>

(***************************************************************************)
(* One invocation at a time: the command line runs one command to its end. *)
(* Spec is the enrichment pipeline, rerun on the files it leaves: brew is   *)
(* run on the corpus a.parquet, in place or with b.parquet as its output.  *)
(***************************************************************************)
BrewCommands ==
  {[input |-> "a.parquet", output |-> "a.parquet"],
   [input |-> "a.parquet", output |-> "b.parquet"]}

Next ==
  \/ \E c \in BrewCommands : brew_start(1, c.input, c.output)
  \/ brew_check(1)
  \/ brew_scan(1)
  \/ get_embeddings_map(1)
  \/ get_embeddings_peek(1)
  \/ get_embeddings_await(1)
  \/ \E i \in Rows : get_embedding_guard(1, i)
  \/ \E i \in Rows, resp \in Responses : get_embedding_respond(1, i, resp)
  \/ brew_collect(1)

Spec == Init /\ [][Next]_vars

(***************************************************************************)
(* SpecSearch is the query path over an enriched corpus.                   *)
(***************************************************************************)
SearchCorpora ==
  UNION {{[i \in 1 .. n |->
             [id |-> i, title |-> Title(i), body |-> "short",
              tags |-> Some(<<"<quantum-mechanics>">>),
              embeddings |-> es[i]]] :
            es \in [1 .. n -> {None, Some(<<1, 0>>), Some(<<0, 1>>),
                               Some(<<1, 1>>)}]} :
           n \in 1 .. MaxRecords}

InitSearch ==
  /\ \E c \in SearchCorpora :
       store = [q \in Paths |-> IF q = "a.parquet" THEN Some(c) ELSE None]
  /\ pc = [p \in Procs |-> "idle"]
  /\ cmd = [p \in Procs |-> NoCmd]
  /\ df = [p \in Procs |-> <<>>]
  /\ pos = [p \in Procs |-> 1]
  /\ handles = [p \in Procs |-> <<>>]
  /\ results = [p \in Procs |-> <<>>]
  /\ task = [p \in Procs |-> [i \in Rows |-> NoTask]]
  /\ embedCalls = [p \in Procs |-> [i \in Rows |-> 0]]
  /\ providerCalls = [p \in Procs |-> [i \in Rows |-> 0]]
  /\ answers = [p \in Procs |-> {}]
  /\ outcome = [p \in Procs |-> "none"]
  /\ printed = [p \in Procs |-> <<>>]
  /\ hist = [path |-> "a.parquet", rows |-> None, answers |-> {}]
  /\ before = [p \in Procs |-> [store |-> store, hist |-> hist]]
  /\ overtaken = [p \in Procs |-> FALSE]

NextSearch ==
  \/ \E input \in Paths, text \in QueryTexts : search_start(1, input, text)
  \/ get_embedding_guard(1, 0)
  \/ \E resp \in Responses : get_embedding_respond(1, 0, resp)
  \/ search_rank(1)

SpecSearch == InitSearch /\ [][NextSearch]_vars

(***************************************************************************)
(* SpecHang is one brew run against a provider that may leave a request    *)
(* unanswered.  The steps of the run are taken as long as they can be: the *)
(* thread of brew runs on, the tokio runtime polls the spawned tasks, and  *)
(* a request the provider does not leave hanging is answered.              *)
(***************************************************************************)
StepsHang ==
  \/ brew_check(1)
  \/ brew_scan(1)
  \/ get_embeddings_map(1)
  \/ get_embeddings_peek(1)
  \/ get_embeddings_await(1)
  \/ \E i \in Rows : get_embedding_guard(1, i)
  \/ \E i \in Rows, resp \in Responses : get_embedding_respond(1, i, resp)
  \/ brew_collect(1)

NextHang ==
  \/ /\ outcome[1] = "none"
     /\ \E c \in BrewCommands : brew_start(1, c.input, c.output)
  \/ \E i \in Rows : get_embedding_hang(1, i)
  \/ StepsHang

SpecHang == Init /\ [][NextHang]_vars /\ WF_vars(StepsHang)

(***************************************************************************)
(* SpecConc is two invocations of brew, each run once and in place on      *)
(* a.parquet, with nothing to coordinate them: their steps interleave in   *)
(* any order.  The corpus has rows to embed and rows that are embedded.    *)
(***************************************************************************)
ConcKinds ==
  {k \in RowKinds :
     /\ k.tags # None /\ k.body = "edge"
     /\ \E i \in DOMAIN k.tags[1] : k.tags[1][i] \in TAGS}

ConcCorpora ==
  UNION {{[i \in 1 .. n |-> Row(i, ks[i])] : ks \in [1 .. n -> ConcKinds]} :
           n \in 1 .. MaxRecords}

InitConc ==
  /\ \E c \in ConcCorpora :
       store = [q \in Paths |-> IF q = "a.parquet" THEN Some(c) ELSE None]
  /\ pc = [p \in Procs |-> "idle"]
  /\ cmd = [p \in Procs |-> NoCmd]
  /\ df = [p \in Procs |-> <<>>]
  /\ pos = [p \in Procs |-> 1]
  /\ handles = [p \in Procs |-> <<>>]
  /\ results = [p \in Procs |-> <<>>]
  /\ task = [p \in Procs |-> [i \in Rows |-> NoTask]]
  /\ embedCalls = [p \in Procs |-> [i \in Rows |-> 0]]
  /\ providerCalls = [p \in Procs |-> [i \in Rows |-> 0]]
  /\ answers = [p \in Procs |-> {}]
  /\ outcome = [p \in Procs |-> "none"]
  /\ printed = [p \in Procs |-> <<>>]
  /\ hist = [path |-> "a.parquet", rows |-> None, answers |-> {}]
  /\ before = [p \in Procs |-> [store |-> store, hist |-> hist]]
  /\ overtaken = [p \in Procs |-> FALSE]

NextConc ==
  \E p \in Procs :
    \/ /\ outcome[p] = "none"
       /\ brew_start(p, "a.parquet", "a.parquet")
    \/ brew_check(p)
    \/ brew_scan(p)
    \/ get_embeddings_map(p)
    \/ get_embeddings_peek(p)
    \/ get_embeddings_await(p)
    \/ \E i \in Rows : get_embedding_guard(p, i)
    \/ \E i \in Rows, resp \in Responses : get_embedding_respond(p, i, resp)
    \/ brew_collect(p)

SpecConc == InitConc /\ [][NextConc]_vars

(***************************************************************************)
(* SpecRerun is brew run again and again in place on a.parquet, a corpus   *)
(* whose masks are all well-formed.  The steps are taken as long as they   *)
(* can be (the user keeps rerunning the command), and the provider does    *)
(* not fail the request for the text of a row for ever.                    *)
(***************************************************************************)
RerunKinds ==
  {k \in RowKinds :
     /\ k.tags # None
     /\ k.embeddings # None => k.body = "edge"}

RerunCorpora ==
  UNION {{[i \in 1 .. n |-> Row(i, ks[i])] : ks \in [1 .. n -> RerunKinds]} :
           n \in 1 .. MaxRecords}

InitRerun ==
  /\ \E c \in RerunCorpora :
       store = [q \in Paths |-> IF q = "a.parquet" THEN Some(c) ELSE None]
  /\ pc = [p \in Procs |-> "idle"]
  /\ cmd = [p \in Procs |-> NoCmd]
  /\ df = [p \in Procs |-> <<>>]
  /\ pos = [p \in Procs |-> 1]
  /\ handles = [p \in Procs |-> <<>>]
  /\ results = [p \in Procs |-> <<>>]
  /\ task = [p \in Procs |-> [i \in Rows |-> NoTask]]
  /\ embedCalls = [p \in Procs |-> [i \in Rows |-> 0]]
  /\ providerCalls = [p \in Procs |-> [i \in Rows |-> 0]]
  /\ answers = [p \in Procs |-> {}]
  /\ outcome = [p \in Procs |-> "none"]
  /\ printed = [p \in Procs |-> <<>>]
  /\ hist = [path |-> "a.parquet", rows |-> None, answers |-> {}]
  /\ before = [p \in Procs |-> [store |-> store, hist |-> hist]]
  /\ overtaken = [p \in Procs |-> FALSE]

NextRerun ==
  \/ brew_start(1, "a.parquet", "a.parquet")
  \/ brew_check(1)
  \/ brew_scan(1)
  \/ get_embeddings_map(1)
  \/ get_embeddings_peek(1)
  \/ get_embeddings_await(1)
  \/ \E i \in Rows : get_embedding_guard(1, i)
  \/ \E i \in Rows, resp \in Responses : get_embedding_respond(1, i, resp)
  \/ brew_collect(1)

\* the provider answers the request of row i with an embedding
Succeeds(i) ==
  \E v \in Vectors : get_embedding_respond(1, i, [ok |-> TRUE, data |-> <<v>>])

SpecRerun ==
  /\ InitRerun
  /\ [][NextRerun]_vars
  /\ WF_vars(NextRerun)
  /\ \A i \in 1 .. MaxRecords : SF_vars(Succeeds(i))

(***************************************************************************)
(* Properties.  They are stated with the words of the specification, not   *)
(* with the operators of brew: a row is allow-listed when one of its tags  *)
(* is in TAGS, and an embedding is present when the cell is not null.      *)
(***************************************************************************)
AllowListed(row) ==
  row.tags # None /\ \E k \in DOMAIN row.tags[1] : row.tags[1][k] \in TAGS

\* the brew command of invocation p has ended
BrewEnded(p) == cmd[p].name = "brew" /\ pc[p] = "idle" /\ outcome[p] # "none"

\* the file brew was given, as it was when the command started
Input(p) == before[p].store[cmd[p].input]

\* the corpus after the run: the file it wrote, or else the file it read
After(p) ==
  IF outcome[p] = "Written" THEN store[cmd[p].output] ELSE store[cmd[p].input]

NeedsWork(row) == filtering(row) = Some(TRUE)

\* C1 (write-once): when a brew run has ended, every row whose embedding was
\* present in the input when the run started still has that same vector in
\* the input file, and has it in the output file if the run wrote one;
\* whatever the row's tags, its mask and the provider's answers.
C1_WriteOnce ==
  \A p \in Procs :
    BrewEnded(p) /\ Input(p) # None =>
      \A i \in DOMAIN Input(p)[1] :
        LET old == Input(p)[1][i].embeddings
            Kept(q) ==
              /\ store[q] # None
              /\ i \in DOMAIN store[q][1]
              /\ store[q][1][i].embeddings = old
        IN old # None =>
             /\ Kept(cmd[p].input)
             /\ outcome[p] = "Written" => Kept(cmd[p].output)

\* a run in place wrote the file, kept the embedding of an allow-listed row
\* and of a row that is not allow-listed, and computed a third one
C1_Witness ==
  \E p \in Procs :
    /\ BrewEnded(p) /\ outcome[p] = "Written"
    /\ cmd[p].input = cmd[p].output
    /\ \E i, j, k \in DOMAIN Input(p)[1] :
         /\ Input(p)[1][i].embeddings # None /\ AllowListed(Input(p)[1][i])
         /\ Input(p)[1][k].embeddings # None /\ ~AllowListed(Input(p)[1][k])
         /\ Input(p)[1][j].embeddings = None
         /\ store[cmd[p].output][1][j].embeddings # None

\* C2 (order preservation): when get_embeddings returns, its result has one
\* element per input pair, and element i is the outcome of the call made for
\* input i (absent when the mask of input i is false), in whatever order the
\* calls ended.
C2_OrderPreserved ==
  \A p \in Procs :
    cmd[p].name = "brew" /\ pc[p] = "merge" =>
      /\ Len(results[p]) = Len(df[p])
      /\ \A i \in DOMAIN df[p] :
           IF NeedsWork(df[p][i])
             THEN /\ task[p][i].st = "done"
                  /\ task[p][i].text = combined(df[p][i])
                  /\ results[p][i] = task[p][i].out
             ELSE results[p][i] = None

\* get_embeddings returns three results, a vector before an absent one,
\* after a call ended while the call of an earlier element was running
C2_Witness ==
  \E p \in Procs :
    /\ cmd[p].name = "brew" /\ pc[p] = "merge"
    /\ overtaken[p]
    /\ Len(results[p]) = 3
    /\ \E i, j \in DOMAIN results[p] :
         /\ i < j
         /\ NeedsWork(df[p][i]) /\ NeedsWork(df[p][j])
         /\ results[p][i] # None /\ results[p][j] = None

\* C3 (empty workset): a brew run on a corpus in which no row is allow-listed
\* with an absent embedding makes no get_embedding call and no provider
\* request, never leaves the pre-check, changes no file, and ends with
\* Ok(()) ("No update needed").
NoWork(rows) ==
  ~\E i \in DOMAIN rows : AllowListed(rows[i]) /\ rows[i].embeddings = None

C3_EmptyWorkset ==
  \A p \in Procs :
    /\ cmd[p].name = "brew"
    /\ Input(p) # None
    /\ NoWork(Input(p)[1])
    => /\ \A i \in Rows : embedCalls[p][i] = 0 /\ providerCalls[p][i] = 0
       /\ pc[p] \in {"check", "idle"}
       /\ store = before[p].store
       /\ pc[p] = "idle" => outcome[p] = "NoUpdate"

\* a run ended with "No update needed" on a corpus whose allow-listed rows
\* all have an embedding, next to a row that is not allow-listed and has none
C3_Witness ==
  \E p \in Procs :
    /\ BrewEnded(p) /\ outcome[p] = "NoUpdate"
    /\ \E i, j \in DOMAIN Input(p)[1] :
         /\ AllowListed(Input(p)[1][i]) /\ Input(p)[1][i].embeddings # None
         /\ ~AllowListed(Input(p)[1][j]) /\ Input(p)[1][j].embeddings = None

\* the provider answered every text of this run as it answered it before
SameWay(now, then) ==
  \A x \in now : \A y \in now \cup then : x[1] = y[1] => x[2] = y[2]

\* the run of p read the file the previous run wrote
Rerun(p) ==
  /\ BrewEnded(p)
  /\ before[p].hist.rows # None
  /\ cmd[p].input = before[p].hist.path
  /\ SameWay(answers[p], before[p].hist.answers)

\* C4 (idempotence): a brew run on the file the previous run wrote, with the
\* provider answering each text as in that run, leaves the corpus as the
\* previous run wrote it: the file it read is unchanged, and a file it
\* writes is identical to it.
C4_Idempotent ==
  \A p \in Procs :
    Rerun(p) =>
      /\ store[cmd[p].input] = before[p].hist.rows
      /\ outcome[p] = "Written" => store[cmd[p].output] = before[p].hist.rows

\* a second run, in place, on a corpus the first run computed an embedding
\* for, in which the provider was asked again and failed again
C4_Witness ==
  \E p \in Procs :
    /\ Rerun(p)
    /\ cmd[p].input = cmd[p].output
    /\ answers[p] # {}
    /\ \E i \in DOMAIN store[cmd[p].input][1] :
         store[cmd[p].input][1][i].embeddings = Some(<<0, 1>>)

\* C5 (failure isolation), as claimed: a brew run with well-formed masks in
\* which a provider call failed is not aborted by it: it ends by writing the
\* output, with the failed rows absent.
C5_FailureIsolation ==
  \A p \in Procs :
    /\ BrewEnded(p)
    /\ \A i \in DOMAIN df[p] : filtering(df[p][i]) # None
    /\ \E a \in answers[p] : a[2] = None
    => outcome[p] = "Written"

\* C6 (token guard): a text of more than 8100 tokens is never sent to the
\* provider and its get_embedding call returns absent; a text of at most
\* 8100 tokens is sent (once the call is past the guard).
C6_TokenGuard ==
  \A p \in Procs : \A i \in Rows :
    task[p][i].st # "none" =>
      LET n == token_len(task[p][i].text)
      IN /\ n > 8100 =>
              /\ providerCalls[p][i] = 0
              /\ task[p][i].st # "inflight"
              /\ task[p][i].st = "done" => task[p][i].out = None
         /\ n <= 8100 /\ task[p][i].st \in {"inflight", "done"} =>
              providerCalls[p][i] = 1

\* a call for a text of 8101 tokens returned, and a call for a text of
\* exactly 8100 tokens got an embedding from the provider
C6_Witness ==
  \E p \in Procs : \E i, j \in Rows :
    /\ task[p][i].st = "done" /\ token_len(task[p][i].text) = 8101
    /\ task[p][j].st = "done" /\ token_len(task[p][j].text) = 8100
    /\ task[p][j].out # None

\* C7 (ranking): the rows search prints are the first HEAD_ROWS (the scaled
\* 20) rows of an order of the corpus in which a row with a greater dot
\* product with the query stands above a row with a smaller one, and a row
\* with an embedding stands above a row without.
Dot2(a, b) == a[1] * b[1] + a[2] * b[2]

Better(rows, q, a, b) ==
  /\ rows[a].embeddings # None
  /\ \/ rows[b].embeddings = None
     \/ Dot2(rows[a].embeddings[1], q) > Dot2(rows[b].embeddings[1], q)

C7_Ranking ==
  \A p \in Procs :
    cmd[p].name = "search" /\ pc[p] = "idle" /\ outcome[p] = "Ranked" =>
      LET rows == store[cmd[p].input][1]
          q == task[p][0].out[1]
          out == printed[p]
          Id(k) == out[k].id[2]
      IN /\ Len(out) = IF Len(rows) < HEAD_ROWS THEN Len(rows) ELSE HEAD_ROWS
         /\ \A k \in DOMAIN out :
              /\ Id(k) \in DOMAIN rows
              /\ out[k].score =
                   IF rows[Id(k)].embeddings = None
                     THEN None
                     ELSE Some(Dot2(rows[Id(k)].embeddings[1], q))
         /\ \A j, k \in DOMAIN out : j # k => Id(j) # Id(k)
         /\ \A a, b \in DOMAIN rows :
              Better(rows, q, a, b) =>
                \A k \in DOMAIN out :
                  Id(k) = b => \E j \in 1 .. k - 1 : Id(j) = a

\* a search over three rows, one of them without embedding, printed two
\* rows, the greater score first, and left out the row with no score
C7_Witness ==
  \E p \in Procs :
    /\ cmd[p].name = "search" /\ pc[p] = "idle" /\ outcome[p] = "Ranked"
    /\ Len(store[cmd[p].input][1]) = 3
    /\ \E i \in 1 .. 3 : store[cmd[p].input][1][i].embeddings = None
    /\ Len(printed[p]) = 2
    /\ printed[p][1].score # None /\ printed[p][2].score # None
    /\ printed[p][1].score[1] > printed[p][2].score[1]

\* C8 (merge rule): in the frame a brew run writes, the embedding of every
\* row is the embedding it had if that was present, else the scheduler's
\* result at the same position if that is present, else absent.
C8_MergeRule ==
  \A p \in Procs :
    BrewEnded(p) /\ outcome[p] = "Written" =>
      LET out == store[cmd[p].output][1]
      IN /\ Len(out) = Len(df[p])
         /\ Len(results[p]) = Len(df[p])
         /\ df[p] = Input(p)[1]
         /\ \A i \in DOMAIN df[p] :
              out[i].embeddings =
                IF df[p][i].embeddings # None THEN df[p][i].embeddings
                ELSE IF results[p][i] # None THEN results[p][i]
                ELSE None

\* a written frame with a kept embedding, a fresh one and an absent one
C8_Witness ==
  \E p \in Procs :
    /\ BrewEnded(p) /\ outcome[p] = "Written"
    /\ \E i, j, k \in DOMAIN df[p] :
         /\ df[p][i].embeddings # None
         /\ df[p][j].embeddings = None /\ results[p][j] # None
         /\ store[cmd[p].output][1][j].embeddings = results[p][j]
         /\ df[p][k].embeddings = None /\ results[p][k] = None
         /\ NeedsWork(df[p][k])

\* C9 (one call per masked element): in a brew run no row has more than one
\* get_embedding call or more than one provider request, a row has one only
\* if it is allow-listed and its embedding is absent, and when
\* get_embeddings returns every row whose mask is true had exactly one
\* get_embedding call and every row whose mask is false had none and
\* resolved to absent.
C9_OneCallPerMasked ==
  \A p \in Procs :
    cmd[p].name = "brew" =>
      /\ embedCalls[p][0] = 0 /\ providerCalls[p][0] = 0
      /\ \A i \in 1 .. MaxRecords :
           /\ embedCalls[p][i] <= 1
           /\ providerCalls[p][i] <= embedCalls[p][i]
           /\ embedCalls[p][i] > 0 =>
                /\ i \in DOMAIN df[p]
                /\ AllowListed(df[p][i])
                /\ df[p][i].embeddings = None
      /\ pc[p] = "merge" =>
           \A i \in DOMAIN df[p] :
             IF NeedsWork(df[p][i])
               THEN embedCalls[p][i] = 1
               ELSE embedCalls[p][i] = 0 /\ results[p][i] = None

\* get_embeddings returned for a frame with a row that was sent to the
\* provider once, an allow-listed row with an embedding and a row that is
\* not allow-listed, neither of which had a call
C9_Witness ==
  \E p \in Procs :
    /\ cmd[p].name = "brew" /\ pc[p] = "merge"
    /\ \E i, j, k \in DOMAIN df[p] :
         /\ providerCalls[p][i] = 1
         /\ AllowListed(df[p][j]) /\ df[p][j].embeddings # None
         /\ embedCalls[p][j] = 0
         /\ ~AllowListed(df[p][k]) /\ df[p][k].embeddings = None
         /\ embedCalls[p][k] = 0

\* C10 (state machine): when a brew run has ended, a row whose embedding was
\* absent in the input has an embedding in the corpus after the run only if
\* it is allow-listed, its text is within the ceiling, and the provider was
\* asked for it once in this run and answered with that vector.
C10_StateMachine ==
  \A p \in Procs :
    BrewEnded(p) /\ Input(p) # None =>
      \A i \in DOMAIN Input(p)[1] :
        LET old == Input(p)[1][i]
            new == After(p)[1][i].embeddings
        IN old.embeddings = None /\ new # None =>
             /\ outcome[p] = "Written"
             /\ AllowListed(old)
             /\ token_len(combined(old)) <= 8100
             /\ providerCalls[p][i] = 1
             /\ task[p][i].st = "done"
             /\ task[p][i].out = new

\* a run wrote a frame in which one absent embedding became a vector, and a
\* <game-design> row, a row over the ceiling and a row whose provider call
\* failed are still absent (the last two in different runs)
C10_Witness ==
  \E p \in Procs :
    /\ BrewEnded(p) /\ outcome[p] = "Written"
    /\ \E i, j, k \in DOMAIN Input(p)[1] :
         /\ Input(p)[1][i].embeddings = None
         /\ After(p)[1][i].embeddings # None
         /\ Input(p)[1][j].tags = Some(<<"<game-design>">>)
         /\ Input(p)[1][j].embeddings = None
         /\ After(p)[1][j].embeddings = None
         /\ AllowListed(Input(p)[1][k])
         /\ Input(p)[1][k].embeddings = None
         /\ After(p)[1][k].embeddings = None

\* C11 (query-embedding failure): when the get_embedding call of a search
\* has returned absent (the query is over the ceiling, or the provider
\* failed), the search does not end with a ranking: it ends with a panic,
\* which is reported to the caller, nothing is printed, and no file is
\* changed.
C11_QueryFailure ==
  \A p \in Procs :
    cmd[p].name = "search" /\ task[p][0].st = "done" /\ task[p][0].out = None
    => /\ printed[p] = <<>>
       /\ store = before[p].store
       /\ pc[p] = "idle" => outcome[p] = "Panic"

\* a search with a query over the ceiling ended, never sent to the provider
C11_Witness ==
  \E p \in Procs :
    /\ cmd[p].name = "search" /\ pc[p] = "idle" /\ outcome[p] = "Panic"
    /\ task[p][0].out = None
    /\ token_len(cmd[p].text) > 8100 /\ providerCalls[p][0] = 0
    /\ store[cmd[p].input] # None

\* the provider was asked for row i in the run of p and the call failed
ProviderFailed(p, i) ==
  /\ providerCalls[p][i] = 1
  /\ task[p][i].st = "done"
  /\ task[p][i].out = None

\* the run of p read the file the previous run wrote, and ended
NextRun(p) ==
  /\ BrewEnded(p) /\ outcome[p] # "Panic"
  /\ before[p].hist.rows # None
  /\ cmd[p].input = before[p].hist.path

\* in the run of p the provider is asked again for every row it failed for
\* in the run before
Retried(p) ==
  \A i \in DOMAIN Input(p)[1] :
    /\ AllowListed(Input(p)[1][i]) /\ Input(p)[1][i].embeddings = None
    /\ <<combined(Input(p)[1][i]), None>> \in before[p].hist.answers
    => providerCalls[p][i] = 1

\* C12 (retry on the next run), as claimed: a row whose provider call failed
\* in a brew run that did not panic is in the output file of that run, with
\* an absent embedding and a true mask; and a run on the file the previous
\* run wrote asks the provider again for every row it failed for.
C12_RetryNextRun ==
  \A p \in Procs :
    /\ BrewEnded(p) /\ outcome[p] # "Panic" =>
         \A i \in DOMAIN df[p] :
           ProviderFailed(p, i) =>
             /\ store[cmd[p].output] # None
             /\ i \in DOMAIN store[cmd[p].output][1]
             /\ store[cmd[p].output][1][i].embeddings = None
             /\ NeedsWork(store[cmd[p].output][1][i])
    /\ NextRun(p) => Retried(p)

\* the chunk of row i: consecutive rows, CHUNK_SIZE to a chunk
ChunkOf(i) == (i - 1) \div CHUNK_SIZE

\* the get_embedding call of row i has started and has not returned
InFlight(p, i) == task[p][i].st \in {"spawned", "inflight"}

\* C13 (chunk barrier): in a brew run, when a get_embedding call has been
\* made for a row of a later chunk, every row of an earlier chunk whose mask
\* is true has had its call and that call has returned (with a vector or
\* absent); so calls of rows of two different chunks are never running at
\* the same time.  The chunks are the consecutive runs of CHUNK_SIZE (the
\* scaled 256) rows.
C13_ChunkBarrier ==
  \A p \in Procs :
    cmd[p].name = "brew" =>
      \A i, j \in DOMAIN df[p] :
        /\ ChunkOf(i) < ChunkOf(j) /\ embedCalls[p][j] > 0 =>
             /\ NeedsWork(df[p][i]) => task[p][i].st = "done"
             /\ Len(results[p]) >= i
        /\ ChunkOf(i) # ChunkOf(j) => ~(InFlight(p, i) /\ InFlight(p, j))

\* the call of a row of the second chunk is at the provider, after the two
\* calls of the first chunk ran at the same time and both returned
C13_Witness ==
  \E p \in Procs :
    /\ cmd[p].name = "brew" /\ overtaken[p]
    /\ \E i, j, k \in DOMAIN df[p] :
         /\ i # j /\ ChunkOf(i) = 0 /\ ChunkOf(j) = 0 /\ ChunkOf(k) = 1
         /\ providerCalls[p][i] = 1 /\ task[p][i].st = "done"
         /\ providerCalls[p][j] = 1 /\ task[p][j].st = "done"
         /\ task[p][k].st = "inflight"

Min(a, b) == IF a < b THEN a ELSE b

\* C14 (bounded concurrency): in a brew run at most CHUNK_SIZE (the scaled
\* 256) get_embedding calls are running at any moment, whatever the number
\* of rows; and while the handles of a chunk are awaited, the rows handed
\* out so far are the whole chunks before it and this chunk, which has
\* CHUNK_SIZE rows or, if it is the last, the rows that are left: n rows
\* whose masks are true are processed as full chunks and then the rest
\* (300 as 256 then 44).
C14_BoundedConcurrency ==
  \A p \in Procs :
    cmd[p].name = "brew" =>
      /\ Cardinality({i \in Rows : InFlight(p, i)}) <= CHUNK_SIZE
      /\ pc[p] = "await" =>
           LET k == Len(results[p]) \div CHUNK_SIZE
           IN /\ handles[p] # <<>>
              /\ Len(results[p]) + Len(handles[p]) = pos[p] - 1
              /\ pos[p] - 1 = Min((k + 1) * CHUNK_SIZE, Len(df[p]))
      /\ pc[p] = "merge" => Len(results[p]) = Len(df[p])

\* a corpus of more rows than a chunk, every mask true: the handle of the
\* last, shorter chunk is awaited, after the calls of the first chunk ran
\* at the same time
C14_Witness ==
  \E p \in Procs :
    /\ cmd[p].name = "brew" /\ pc[p] = "await" /\ overtaken[p]
    /\ Len(df[p]) > CHUNK_SIZE
    /\ \A i \in DOMAIN df[p] : NeedsWork(df[p][i])
    /\ Len(results[p]) = CHUNK_SIZE
    /\ Len(handles[p]) = Len(df[p]) - CHUNK_SIZE
    /\ \A i \in DOMAIN df[p] : ChunkOf(i) = 1 => InFlight(p, i)

\* the mask of the row is null: its tags are null and its embedding absent
NullMask(row) == row.tags = None /\ row.embeddings = None

\* C15 (null mask): a brew run on a corpus that has a row to embed (so the
\* run is not short-circuited) and a row with null tags and an absent
\* embedding never reaches the merge, returns no result for that row, ends
\* with a panic and changes no file: the row is not skipped as if its mask
\* were false.
C15_NullMask ==
  \A p \in Procs :
    /\ cmd[p].name = "brew"
    /\ Input(p) # None
    /\ ~NoWork(Input(p)[1])
    => \A i \in DOMAIN Input(p)[1] :
         NullMask(Input(p)[1][i]) =>
           /\ pc[p] # "merge"
           /\ Len(results[p]) < i
           /\ store = before[p].store
           /\ pc[p] = "idle" => outcome[p] = "Panic"

\* a run panicked on a row with a null mask after the provider had
\* answered the call of an earlier row with a vector
C15_Witness ==
  \E p \in Procs :
    /\ BrewEnded(p) /\ outcome[p] = "Panic"
    /\ \E i, j \in DOMAIN Input(p)[1] :
         /\ i < j
         /\ task[p][i].st = "done" /\ task[p][i].out # None
         /\ NullMask(Input(p)[1][j])

\* the row is allow-listed, has no embedding, and its text is over the
\* ceiling
TooLong(row) ==
  /\ AllowListed(row) /\ row.embeddings = None
  /\ token_len(combined(row)) > 8100

\* what a run does with a row over the ceiling, short of writing the file:
\* no short-circuit, one get_embedding call, no provider request
SkippedByGuard(p, i) ==
  /\ outcome[p] # "NoUpdate"
  /\ embedCalls[p][i] = 1
  /\ providerCalls[p][i] = 0

\* C16 (a record over the ceiling stays eligible), as claimed: a brew run
\* with well-formed masks on a corpus that has an allow-listed row without
\* embedding whose text is over the ceiling is not short-circuited, makes
\* no provider request for that row, and rewrites the output, in which the
\* row is still absent and its mask still true.
C16_TooLongStaysEligible ==
  \A p \in Procs :
    /\ BrewEnded(p) /\ Input(p) # None
    /\ \A i \in DOMAIN Input(p)[1] : ~NullMask(Input(p)[1][i])
    => \A i \in DOMAIN Input(p)[1] :
         TooLong(Input(p)[1][i]) =>
           /\ SkippedByGuard(p, i)
           /\ outcome[p] = "Written"
           /\ store[cmd[p].output][1][i].embeddings = None
           /\ NeedsWork(store[cmd[p].output][1][i])

\* a provider request of the run of p was left unanswered
Hung(p) == \E i \in Rows : task[p][i].st = "hung"

\* while the request of row i hangs: no call is made for a row of a later
\* chunk, no result is returned for row i, get_embeddings does not return,
\* brew does not return, and no file is written
Stalled(p, i) ==
  /\ \A j \in DOMAIN df[p] : ChunkOf(j) > ChunkOf(i) => embedCalls[p][j] = 0
  /\ Len(results[p]) < i
  /\ pc[p] # "merge"
  /\ outcome[p] \in {"running", "Panic"}
  /\ store = before[p].store

\* C17 (a hung call stalls its chunk): once a provider request of a brew
\* run hangs, no call of a later chunk is ever started, get_embeddings never
\* returns and no output is written; and a brew run that has started ends,
\* unless one of its provider requests hangs.
C17_HungCallStalls ==
  /\ [](\A p \in Procs : \A i \in DOMAIN df[p] :
          task[p][i].st = "hung" => Stalled(p, i))
  /\ (pc[1] # "idle") ~> (pc[1] = "idle" \/ Hung(1))

\* the request of a row of the first chunk hangs while the call of the other
\* row of the chunk has returned and its handle has been awaited, and a row
\* of the second chunk is waiting to be embedded
C17_Witness ==
  \E p \in Procs :
    /\ pc[p] = "await"
    /\ \E i, j, k \in DOMAIN df[p] :
         /\ i < j /\ ChunkOf(i) = ChunkOf(j) /\ ChunkOf(j) < ChunkOf(k)
         /\ task[p][i].st = "done" /\ Len(results[p]) = i
         /\ task[p][j].st = "hung"
         /\ NeedsWork(df[p][k]) /\ embedCalls[p][k] = 0

\* the embedding of row i in the file at path q
Persisted(q, i) ==
  IF store[q] # None /\ i \in DOMAIN store[q][1]
    THEN store[q][1][i].embeddings
    ELSE None

\* this step is the write of the run of p, which scanned the file when it
\* was not what it is now and saw no embedding in row i
StaleWrite(p, i) ==
  /\ pc[p] = "merge" /\ pc'[p] = "idle"
  /\ store[cmd[p].input] # Some(df[p])
  /\ i \in DOMAIN df[p] /\ df[p][i].embeddings = None

\* C18 (concurrent runs are not safe): with two brew runs in place on the
\* same file, an embedding that is in the file can be replaced, by absent
\* or by another vector (C18_Witness is such a behaviour); and it is
\* replaced only by the write of a run that scanned the file before the
\* other run wrote it, and so writes back the absent embedding it read, or
\* what it computed itself.
C18_ConcurrentRunsUnsafe ==
  [][\A i \in 1 .. MaxRecords :
       Persisted("a.parquet", i) # None
       /\ Persisted("a.parquet", i)' # Persisted("a.parquet", i)
       => \E p \in Procs : StaleWrite(p, i)]_vars

\* both runs wrote the file; the first to write computed and wrote the
\* embedding of a row, the provider failed the other run for that row, and
\* the row is absent in the file the other run left
C18_Witness ==
  \E p, q \in Procs : \E i \in DOMAIN df[p] :
    /\ p # q
    /\ BrewEnded(p) /\ outcome[p] = "Written"
    /\ BrewEnded(q) /\ outcome[q] = "Written"
    /\ df[p][i].embeddings = None /\ results[p][i] # None
    /\ results[q][i] = None
    /\ store["a.parquet"] = Some(merged(df[q], results[q]))
    /\ Persisted("a.parquet", i) = None

\* C19 (frame of a run): the file a brew run writes has one row for every
\* row of the input, in the same order, with the id, title, body and tags
\* of that row; its columns are id, title, body, tags and embeddings and no
\* other; and a run leaves every file but its output as it was.
C19_Frame ==
  \A p \in Procs :
    BrewEnded(p) =>
      /\ \A q \in Paths :
           q # cmd[p].output \/ outcome[p] # "Written" =>
             store[q] = before[p].store[q]
      /\ outcome[p] = "Written" =>
           LET in == Input(p)[1]
               out == store[cmd[p].output][1]
           IN /\ Len(out) = Len(in)
              /\ \A i \in DOMAIN in :
                   /\ DOMAIN out[i] =
                        {"id", "title", "body", "tags", "embeddings"}
                   /\ out[i].id = in[i].id
                   /\ out[i].title = in[i].title
                   /\ out[i].body = in[i].body
                   /\ out[i].tags = in[i].tags

\* a run wrote three rows to a file other than its input, one of them with
\* a new embedding
C19_Witness ==
  \E p \in Procs :
    /\ BrewEnded(p) /\ outcome[p] = "Written"
    /\ cmd[p].output # cmd[p].input
    /\ Len(store[cmd[p].output][1]) = 3
    /\ \E i \in DOMAIN Input(p)[1] :
         /\ Input(p)[1][i].embeddings = None
         /\ store[cmd[p].output][1][i].embeddings # None
    /\ \E i, j \in DOMAIN Input(p)[1] :
         Input(p)[1][i].tags # Input(p)[1][j].tags

\* the rows of the corpus file
CorpusRows == store["a.parquet"][1]

\* every allow-listed row whose text is within the ceiling has an embedding
Converged ==
  \A i \in DOMAIN CorpusRows :
    AllowListed(CorpusRows[i]) /\ token_len(combined(CorpusRows[i])) <= 8100
      => CorpusRows[i].embeddings # None

\* the number of rows of the corpus file that have an embedding
Computed(rows) ==
  Cardinality({i \in DOMAIN rows : rows[i].embeddings # None})

\* C20 (convergence under reruns): when brew is rerun in place on a corpus
\* with well-formed masks and the provider does not fail the text of a row
\* for ever, the corpus reaches a state in which every allow-listed row
\* within the ceiling has an embedding and stays in it; from that state on
\* no run changes an embedding; and no step ever lowers the number of rows
\* that have an embedding.
C20_Convergence ==
  /\ <>[]Converged
  /\ [][Converged =>
          \A i \in DOMAIN CorpusRows :
            Persisted("a.parquet", i)' = Persisted("a.parquet", i)]_vars
  /\ [][Computed(CorpusRows') >= Computed(CorpusRows)]_vars

\* a second run wrote the last missing embedding, after the first run wrote
\* another and the provider failed it for this one; a row over the ceiling
\* is still absent
C20_Witness ==
  /\ BrewEnded(1) /\ outcome[1] = "Written"
  /\ before[1].hist.rows # None
  /\ Converged
  /\ \E i, j, k \in DOMAIN CorpusRows :
       /\ before[1].store["a.parquet"][1][i].embeddings = Some(<<0, 1>>)
       /\ before[1].store["a.parquet"][1][j].embeddings = None
       /\ <<combined(CorpusRows[j]), None>> \in before[1].hist.answers
       /\ CorpusRows[j].embeddings = Some(<<0, 1>>)
       /\ TooLong(CorpusRows[k])

=============================================================================
